---- MODULE Spec2Model ----
(***************************************************************************)
(* wbot-server: the bounded-concurrency engine of bot.go (validateExec,    *)
(* NewBot, spawnWorker, Close, execAtom, exec, Solve/Coach/WordList) and   *)
(* the error classification of the request handler (internalError).       *)
(*                                                                         *)
(* Goroutines are modelled by program counters.  A caller is one call of   *)
(* Solve, Coach or WordList; a worker is one goroutine of spawnWorker; a   *)
(* subprocess is the OS process started by cmd.Start in execAtom.  Time is *)
(* not counted: a timer or a deadline may fire at any moment it is armed.  *)
(***************************************************************************)
EXTENDS Integers, FiniteSets, Sequences, TLC

\* ---------------------------------------------------------------- bounds
\* Number of Solve/Coach/WordList calls issued in one behaviour.
NumCalls == 3
\* Largest configured max_concurrent_users explored (the smallest is -1).
MaxWorkers == 2

\* ------------------------------------------------------- program constants
\* io.LimitReader(reader, 1024 * 1024)
Cap == 1048576
\* (m & 0o755) != m
Mode0755 == 493

VARIABLES
    file,       \* what os.Stat(config.ExecPath) reports
    config,     \* BotConfig
    bot,        \* what NewBot returned: [state, err]
    closed,     \* whether close(b.work) has run
    workers,    \* the goroutines of spawnWorker
    calls,      \* the calls of Bot.exec: caller's pc, err, v
    procs,      \* the subprocess of each call's task
    nstarted,   \* successful cmd.Start() so far
    ncalls,     \* calls issued so far
    facade,     \* the last Solve/Coach/WordList: its inputs, what it submitted
    clock       \* time each call and each subprocess has been under way

vars == <<file, config, bot, closed, workers, calls, procs, nstarted, ncalls,
          facade, clock>>

Min(a, b) == IF a < b THEN a ELSE b
Max(a, b) == IF a > b THEN a ELSE b

CallIds == 1 .. NumCalls

\* ------------------------------------------------------------ error values
\* An error is its dynamic Go type, its message, and the statement of
\* bot.go that produced it.  Callers classify by type (err.(TimeoutError)).
ErrNil == [type |-> "nil", msg |-> "", site |-> "none"]
\* fmt.Errorf without %w yields an *errors.errorString
ErrQueueTimeout ==
    [type |-> "*errors.errorString", msg |-> "timeout waiting for resources",
     site |-> "exec.select"]
ErrStdoutPipe ==
    [type |-> "*os.SyscallError", msg |-> "pipe: too many open files",
     site |-> "execAtom.StdoutPipe"]
ErrStart ==
    [type |-> "*fs.PathError", msg |-> "fork/exec: permission denied",
     site |-> "execAtom.Start"]
\* io.EOF and io.ErrUnexpectedEOF are errors.New values
ErrEOF ==
    [type |-> "*errors.errorString", msg |-> "EOF", site |-> "execAtom.Decode"]
ErrUnexpectedEOF ==
    [type |-> "*errors.errorString", msg |-> "unexpected EOF",
     site |-> "execAtom.Decode"]
ErrSyntax ==
    [type |-> "*json.SyntaxError", msg |-> "invalid character",
     site |-> "execAtom.Decode"]
ErrUnmarshalType ==
    [type |-> "*json.UnmarshalTypeError", msg |-> "cannot unmarshal",
     site |-> "execAtom.Decode"]
ErrExitStatus ==
    [type |-> "*exec.ExitError", msg |-> "exit status 1",
     site |-> "execAtom.Wait"]
ErrKilled ==
    [type |-> "*exec.ExitError", msg |-> "signal: killed",
     site |-> "execAtom.Wait"]

\* internalError: if _, ok := err.(TimeoutError); ok { status = 503 }
IsTimeoutError(e) == e.type = "TimeoutError"
internalErrorStatus(e) == IF IsTimeoutError(e) THEN 503 ELSE 500

\* --------------------------------------------------------- validateExec
\* A Go FileMode: the type bits (only "regular" and "dir" are told apart),
\* the setuid flag (a mode bit outside the nine permission bits) and the
\* nine Unix permission bits.
RECURSIVE BitAnd(_, _)
BitAnd(a, b) ==
    IF a = 0 \/ b = 0 THEN 0
    ELSE (IF a % 2 = 1 /\ b % 2 = 1 THEN 1 ELSE 0) + 2 * BitAnd(a \div 2, b \div 2)

\* info.Mode().IsRegular()
IsRegular(m) == m.type = "regular"

\* m & 0o755: every type and flag bit is cleared, the permission bits masked
MaskMode(m) ==
    [type |-> "regular", setuid |-> FALSE, perm |-> BitAnd(m.perm, Mode0755)]

validateExecNoOwnerCheck(f) ==
    IF ~f.exists THEN "stat: no such file or directory"
    ELSE IF ~IsRegular(f.mode) THEN "is not a regular file"
    ELSE IF MaskMode(f.mode) # f.mode
        THEN "engine executable must have mode 0755 or stricter"
    ELSE "nil"

validateExec(f) ==
    IF ~f.exists THEN "stat: no such file or directory"
    ELSE IF ~IsRegular(f.mode) THEN "is not a regular file"
    ELSE IF MaskMode(f.mode) # f.mode
        THEN "engine executable must have mode 0755 or stricter"
    ELSE IF f.uid # 0 \/ f.gid # 0
        THEN "engine executable must be owned by root"
    ELSE "nil"

\* ---------------------------------------------------------------- NewBot
\* for i := 0; i < config.MaxConcurrentUsers; i++ { spawnWorker(work) }
SpawnedWorkers(n) == 1 .. n

\* A worker goroutine blocked in f, ok := <-work
IdleWorker == [pc |-> "recv", task |-> 0]

\* A call of b.exec: the caller's position, the variables v and err of its
\* frame, the select case taken, and whether it was issued after Close.
NoCall == [pc |-> "idle", val |-> "zero", err |-> ErrNil,
           via |-> "none", afterClose |-> FALSE]
NoPlan == [kind |-> "none", jsonEnd |-> 0, total |-> 0]
\* A subprocess: whether it runs, what it prints and how much of it is
\* written and read, whether the deadline killed it, whether its context is
\* cancelled.
NoProc == [st |-> "none", plan |-> NoPlan, written |-> 0, nread |-> 0,
           killed |-> "no", cancelled |-> FALSE]

\* No facade operation has been called yet.
NoFacade == [op |-> "none", word |-> "", guesses |-> <<>>,
             timer |-> 0, deadline |-> 0, argv |-> <<>>]

\* No time has passed for any call or subprocess.
NoClock == [call |-> [c \in CallIds |-> 0], proc |-> [c \in CallIds |-> 0]]

\* The state NewBot leaves behind for a given file and configuration.
NewBotState(f, cfg) ==
    LET err == validateExec(f) IN
    IF err # "nil"
    THEN [bot |-> [state |-> "nil", err |-> err],
          workers |-> [w \in {} |-> IdleWorker]]
    ELSE [bot |-> [state |-> "ok", err |-> "nil"],
          workers |-> [w \in SpawnedWorkers(cfg.MaxConcurrentUsers) |-> IdleWorker]]

\* ------------------------------------------------------------- inputs
Perms == {493, 365, 448, 420, 509, 511}
Modes == [type : {"regular", "dir"}, setuid : BOOLEAN, perm : Perms]
Files == [exists : BOOLEAN, mode : Modes, uid : {0, 1000}, gid : {0, 1000}]
Configs == [MaxConcurrentUsers : -1 .. MaxWorkers]

\* /usr/local/bin/wordsmith as installed: root:root, mode 0755
InstalledFile ==
    [exists |-> TRUE,
     mode |-> [type |-> "regular", setuid |-> FALSE, perm |-> Mode0755],
     uid |-> 0, gid |-> 0]

Quiet ==
    /\ closed = FALSE
    /\ calls = [c \in CallIds |-> NoCall]
    /\ procs = [c \in CallIds |-> NoProc]
    /\ nstarted = 0
    /\ ncalls = 0
    /\ facade = NoFacade
    /\ clock = NoClock

\* The state after NewBot(config) on the installed executable.
Init ==
    /\ file = InstalledFile
    /\ config \in Configs
    /\ bot = NewBotState(file, config).bot
    /\ workers = NewBotState(file, config).workers
    /\ Quiet

\* The state before NewBot, for any executable and configuration.
InitBoot ==
    /\ file \in Files
    /\ config \in Configs
    /\ bot = [state |-> "unconstructed", err |-> "nil"]
    /\ workers = [w \in {} |-> IdleWorker]
    /\ Quiet

NewBot ==
    /\ bot.state = "unconstructed"
    /\ bot' = NewBotState(file, config).bot
    /\ workers' = NewBotState(file, config).workers
    /\ UNCHANGED <<facade, clock, file, config, closed, calls, procs, nstarted, ncalls>>

NextBoot == NewBot

SpecBoot == InitBoot /\ [][NextBoot]_vars

\* ---------------------------------------------------------- engine facade
\* What Solve, Coach and WordList hand to b.exec, and what b.exec makes of
\* it: the duration of time.After in the select, and through execAtom and
\* command the deadline of the context and the arguments of the command.

\* b.exec(1000, &words, "list", "all")
WordListTimeout == 1000

\* Most guesses given to Coach.
MaxGuesses == 2

Words == {"crane", "slate"}
Timeouts == {1000, 4000, 5000}

RECURSIVE SeqsUpTo(_, _)
SeqsUpTo(S, n) ==
    IF n = 0 THEN {<<>>}
    ELSE LET shorter == SeqsUpTo(S, n - 1) IN
         shorter \cup {Append(q, x) : q \in shorter, x \in S}

GuessLists == SeqsUpTo(Words, MaxGuesses)

FacadeConfigs ==
    [MaxConcurrentUsers : {MaxWorkers}, SolveTimeout : Timeouts,
     CoachTimeout : Timeouts]

\* b.command(timeout, args...): context.WithTimeout(timeout ms) and
\* exec.CommandContext(ctx, b.config.ExecPath, args...)
command(timeout, args) == [deadline |-> timeout, argv |-> args]

\* b.execAtom(timeout, v, args...): cmd, cancel := b.command(timeout, args...)
execAtom(timeout, args) == command(timeout, args)

\* b.exec(timeout, v, args...): the task runs b.execAtom(timeout, v, args...)
\* and the select races it against time.After(timeout ms)
exec(timeout, args) ==
    [timer |-> timeout,
     deadline |-> execAtom(timeout, args).deadline,
     argv |-> execAtom(timeout, args).argv]

\* b.exec(b.config.SolveTimeout, &result, "solve", "-t", word)
SolveExec(cfg, word) == exec(cfg.SolveTimeout, <<"solve", "-t", word>>)

\* args := []string{"coach", "-t", word}; args = append(args, guesses...)
CoachArgsNoGuesses(word, guesses) == <<"coach", "-t", word>>

CoachArgs(word, guesses) == <<"coach", "-t", word>> \o guesses

\* b.exec(b.config.CoachTimeout, &result, args...)
CoachExec(cfg, word, guesses) == exec(cfg.CoachTimeout, CoachArgs(word, guesses))

\* b.exec(1000, &words, "list", "all")
WordListExec == exec(WordListTimeout, <<"list", "all">>)

Submitted(op, word, guesses, sub) ==
    [op |-> op, word |-> word, guesses |-> guesses,
     timer |-> sub.timer, deadline |-> sub.deadline, argv |-> sub.argv]

\* The engine as constructed from a configuration that sets both timeouts.
InitFacade ==
    /\ file = InstalledFile
    /\ config \in FacadeConfigs
    /\ bot = NewBotState(file, config).bot
    /\ workers = NewBotState(file, config).workers
    /\ Quiet

Solve(word) ==
    /\ bot.state = "ok"
    /\ facade' = Submitted("Solve", word, <<>>, SolveExec(config, word))
    /\ UNCHANGED <<clock, file, config, bot, closed, workers, calls, procs,
                   nstarted, ncalls>>

Coach(word, guesses) ==
    /\ bot.state = "ok"
    /\ facade' = Submitted("Coach", word, guesses,
                           CoachExec(config, word, guesses))
    /\ UNCHANGED <<clock, file, config, bot, closed, workers, calls, procs,
                   nstarted, ncalls>>

WordList ==
    /\ bot.state = "ok"
    /\ facade' = Submitted("WordList", "", <<>>, WordListExec)
    /\ UNCHANGED <<clock, file, config, bot, closed, workers, calls, procs,
                   nstarted, ncalls>>

NextFacade ==
    \/ \E word \in Words : Solve(word)
    \/ \E word \in Words, guesses \in GuessLists : Coach(word, guesses)
    \/ WordList

SpecFacade == InitFacade /\ [][NextFacade]_vars

\* ------------------------------------------------------------ subprocess
\* What the external program prints: a JSON value of jsonEnd bytes followed
\* by total - jsonEnd further bytes ("json"), or bytes that are no JSON
\* ("garbage").
Plans ==
    { [kind |-> "json", jsonEnd |-> 2, total |-> 2],
      [kind |-> "json", jsonEnd |-> Cap, total |-> Cap + 1],
      [kind |-> "json", jsonEnd |-> Cap + 1, total |-> Cap + 1],
      [kind |-> "garbage", jsonEnd |-> 0, total |-> 2] }

\* The subprocess is seen having written nothing, one byte, or everything.
NextWrite(p) == IF p.written = 0 /\ p.plan.total > 1 THEN 1 ELSE p.plan.total

Running == {c \in CallIds : procs[c].st = "running"}

\* What remains of a subprocess once execAtom has returned: cmd, reader and
\* decoder are out of scope, only the OS process and its context remain.
Forget(p) == [NoProc EXCEPT !.st = p.st, !.cancelled = p.cancelled]

\* Whether decoder.Decode(v) of call c's task is reading the pipe.
Decoding(c) == \E w \in DOMAIN workers : workers[w] = [pc |-> "decode", task |-> c]

\* io.LimitReader(reader, 1024 * 1024): of n bytes written, those readable
LimitReadUnbounded(n) == n

LimitRead(n) == Min(n, Cap)

\* The subprocess writes more of its output to the pipe; what it prints is
\* known from its first write on.  A Decode blocked in its read takes what
\* the limited reader delivers of it.  Once execAtom has returned nothing
\* reads the pipe, and further writes are not followed.
ProcWrite(c) ==
    /\ procs[c].st = "running"
    /\ ~procs[c].cancelled
    /\ \E plan \in Plans :
        /\ procs[c].written > 0 => plan = procs[c].plan
        /\ procs[c].written < plan.total
        /\ LET n == NextWrite([procs[c] EXCEPT !.plan = plan]) IN
            procs' = [procs EXCEPT ![c].plan = plan, ![c].written = n,
                ![c].nread = IF Decoding(c) THEN LimitRead(n) ELSE procs[c].nread]
    /\ UNCHANGED <<facade, clock, file, config, bot, closed, workers, calls, nstarted, ncalls>>

\* The subprocess exits by itself; its exit status is what cmd.Wait() will
\* collect.
ProcExit(c) ==
    /\ procs[c].st = "running"
    /\ procs' = [procs EXCEPT ![c].st = "exited"]
    /\ UNCHANGED <<facade, clock, file, config, bot, closed, workers, calls, nstarted, ncalls>>

\* context.WithTimeout + exec.CommandContext: the deadline of the command's
\* context elapses while the subprocess runs, and os/exec kills it.
DeadlineKill(c) ==
    /\ procs[c].st = "running"
    /\ ~procs[c].cancelled
    /\ procs' = [procs EXCEPT ![c].st = "exited", ![c].killed = "deadline"]
    /\ UNCHANGED <<facade, clock, file, config, bot, closed, workers, calls, nstarted, ncalls>>

\* defer cancel(): the context was cancelled when execAtom returned (its
\* deadline is disarmed, ExecDecodeFail and ExecWait reset its clock); the
\* goroutine of os/exec that watches the context kills the subprocess.
CancelKill(c) ==
    /\ procs[c].st = "running"
    /\ procs[c].cancelled
    /\ procs' = [procs EXCEPT ![c].st = "exited"]
    /\ UNCHANGED <<facade, clock, file, config, bot, closed, workers, calls, nstarted, ncalls>>

\* -------------------------------------------------------------- execAtom
\* The limited reader reports EOF: a further byte would not be delivered.
LimitExhausted(n) == LimitRead(n + 1) = LimitRead(n)

\* decoder.Decode(v) on the p.nread bytes read so far from subprocess p:
\* nil once a whole JSON value is read, the error returned, or "pending"
\* while Decode reads on: the reader reports EOF when the limit is used up,
\* or when the subprocess has exited and all it wrote is read.
DecodeOutcome(p) ==
    IF p.plan.kind = "garbage" /\ p.nread > 0 THEN ErrSyntax
    ELSE IF p.plan.kind = "json" /\ p.plan.jsonEnd <= p.nread THEN ErrNil
    ELSE IF LimitExhausted(p.nread) THEN ErrUnexpectedEOF
    ELSE IF p.st = "exited" /\ p.nread = p.written
        THEN (IF p.nread = 0 THEN ErrEOF ELSE ErrUnexpectedEOF)
    ELSE [type |-> "pending", msg |-> "", site |-> "execAtom.Decode"]

\* cmd.Wait() once subprocess p has exited with status code.
WaitOutcome(p, code) ==
    IF p.killed # "no" THEN ErrKilled
    ELSE IF code # 0 THEN ErrExitStatus
    ELSE ErrNil

\* The task returns: err = b.execAtom(...); wg.Done() releases the caller
\* from wg.Wait(); and the worker loops back to f, ok := <-work.
TaskDoneRetry(w, c, e) ==
    /\ workers' = [workers EXCEPT ![w] =
            IF e # ErrNil THEN [pc |-> "start", task |-> c] ELSE IdleWorker]
    /\ calls' = [calls EXCEPT ![c].err = e,
                              ![c].pc = IF e # ErrNil THEN "wait" ELSE "return"]

TaskDone(w, c, e) ==
    /\ workers' = [workers EXCEPT ![w] = IdleWorker]
    /\ calls' = [calls EXCEPT ![c].err = e, ![c].pc = "return"]

\* cmd.StdoutPipe() fails: return err
ExecPipeFail(w) ==
    /\ workers[w].pc = "start"
    /\ TaskDone(w, workers[w].task, ErrStdoutPipe)
    /\ UNCHANGED <<facade, clock, file, config, bot, closed, procs, nstarted, ncalls>>

\* cmd.Start() fails: return err
ExecStartFail(w) ==
    /\ workers[w].pc = "start"
    /\ TaskDone(w, workers[w].task, ErrStart)
    /\ UNCHANGED <<facade, clock, file, config, bot, closed, procs, nstarted, ncalls>>

\* cmd.Start() succeeds: one subprocess runs
ExecStart(w) ==
    /\ workers[w].pc = "start"
    /\ procs' = [procs EXCEPT ![workers[w].task] = [NoProc EXCEPT !.st = "running"]]
    /\ nstarted' = nstarted + 1
    /\ workers' = [workers EXCEPT ![w].pc = "decode"]
    /\ UNCHANGED <<facade, clock, file, config, bot, closed, calls, ncalls>>

\* decoder.Decode(v) returns nil, *v holds the value: go on to cmd.Wait()
ExecDecodeOk(w) ==
    LET c == workers[w].task IN
    /\ workers[w].pc = "decode"
    /\ DecodeOutcome(procs[c]) = ErrNil
    /\ calls' = [calls EXCEPT ![c].val = "decoded"]
    /\ workers' = [workers EXCEPT ![w].pc = "wait"]
    /\ UNCHANGED <<facade, clock, file, config, bot, closed, procs, nstarted, ncalls>>

\* decoder.Decode(v) returns an error: return err, and the deferred cancel()
ExecDecodeFail(w) ==
    LET c == workers[w].task
        e == DecodeOutcome(procs[c])
    IN
    /\ workers[w].pc = "decode"
    /\ e.type \notin {"nil", "pending"}
    /\ procs' = [procs EXCEPT ![c] = Forget([procs[c] EXCEPT !.cancelled = TRUE])]
    /\ clock' = [clock EXCEPT !.proc[c] = 0]
    /\ TaskDone(w, c, e)
    /\ UNCHANGED <<facade, file, config, bot, closed, nstarted, ncalls>>

\* return cmd.Wait(), and the deferred cancel()
ExecWait(w) ==
    LET c == workers[w].task IN
    /\ workers[w].pc = "wait"
    /\ procs[c].st = "exited"
    /\ procs' = [procs EXCEPT ![c] = Forget([procs[c] EXCEPT !.cancelled = TRUE])]
    /\ clock' = [clock EXCEPT !.proc[c] = 0]
    /\ \E code \in {0, 1} : TaskDone(w, c, WaitOutcome(procs[c], code))
    /\ UNCHANGED <<facade, file, config, bot, closed, nstarted, ncalls>>

\* ------------------------------------------------------------ spawnWorker
\* f, ok := <-work with ok false: break
WorkerExit(w) ==
    /\ workers[w].pc = "recv"
    /\ closed
    /\ workers' = [workers EXCEPT ![w].pc = "exited"]
    /\ UNCHANGED <<facade, clock, file, config, bot, closed, calls, procs, nstarted, ncalls>>

\* ------------------------------------------------------------- Bot.exec
\* Solve, Coach or WordList calls b.exec: wg.Add(1) and the select is
\* entered.  The three differ in arguments, timeout and result type only,
\* none of which the scheduling depends on.
Call ==
    /\ bot.state = "ok"
    /\ ncalls < NumCalls
    /\ ncalls' = ncalls + 1
    /\ calls' = [calls EXCEPT ![ncalls + 1] =
                    [NoCall EXCEPT !.pc = "select", !.afterClose = closed]]
    /\ UNCHANGED <<facade, clock, file, config, bot, closed, workers, procs, nstarted>>

\* Whether the send b.work <- task of call c can meet the receive of worker w.
CanAcceptIgnoringClose(c, w) ==
    /\ calls[c].pc = "select"
    /\ workers[w].pc = "recv"

CanAcceptBusyWorker(c, w) ==
    /\ calls[c].pc = "select"
    /\ ~closed

CanAccept(c, w) ==
    /\ calls[c].pc = "select"
    /\ ~closed
    /\ workers[w].pc = "recv"

\* case b.work <- task: a worker receives the task (unbuffered rendezvous)
AcceptNoWait(c, w) ==
    /\ CanAccept(c, w)
    /\ calls' = [calls EXCEPT ![c].pc = "return", ![c].via = "task"]
    /\ workers' = [workers EXCEPT ![w] = [pc |-> "start", task |-> c]]
    /\ UNCHANGED <<facade, clock, file, config, bot, closed, procs, nstarted, ncalls>>

AcceptDropsTask(c, w) ==
    /\ CanAccept(c, w)
    /\ calls' = [calls EXCEPT ![c].pc = "wait", ![c].via = "task"]
    /\ UNCHANGED <<facade, clock, file, config, bot, closed, workers, procs, nstarted, ncalls>>

Accept(c, w) ==
    /\ CanAccept(c, w)
    /\ calls' = [calls EXCEPT ![c].pc = "wait", ![c].via = "task"]
    /\ workers' = [workers EXCEPT ![w] = [pc |-> "start", task |-> c]]
    /\ UNCHANGED <<facade, clock, file, config, bot, closed, procs, nstarted, ncalls>>

\* case <-time.After(timeout ms): err = fmt.Errorf(...)
TimerFireKeepsSend(c) ==
    /\ calls[c].pc = "select"
    /\ calls' = [calls EXCEPT ![c].via = "timer", ![c].err = ErrQueueTimeout]
    /\ UNCHANGED <<facade, clock, file, config, bot, closed, workers, procs, nstarted, ncalls>>

TimerFire(c) ==
    /\ calls[c].pc = "select"
    /\ calls' = [calls EXCEPT ![c].pc = "return", ![c].via = "timer",
                              ![c].err = ErrQueueTimeout]
    /\ UNCHANGED <<facade, clock, file, config, bot, closed, workers, procs, nstarted, ncalls>>

\* b.work <- task on a closed channel: panic: send on closed channel
SendPanic(c) ==
    /\ calls[c].pc = "select"
    /\ closed
    /\ calls' = [calls EXCEPT ![c].pc = "panicked"]
    /\ UNCHANGED <<facade, clock, file, config, bot, closed, workers, procs, nstarted, ncalls>>

\* return: Solve, Coach or WordList hands v and err to its caller, and the
\* frame of the call is gone, the timer of its select with it.
Return(c) ==
    /\ calls[c].pc = "return"
    /\ calls' = [calls EXCEPT ![c] =
            [NoCall EXCEPT !.pc = "returned", !.afterClose = calls[c].afterClose]]
    /\ clock' = [clock EXCEPT !.call[c] = 0]
    /\ UNCHANGED <<facade, file, config, bot, closed, workers, procs, nstarted, ncalls>>

\* ------------------------------------------------------------- Bot.Close
\* close(b.work), called once
Close ==
    /\ bot.state = "ok"
    /\ ~closed
    /\ closed' = TRUE
    /\ UNCHANGED <<facade, clock, file, config, bot, workers, calls, procs, nstarted, ncalls>>

\* ------------------------------------------------------------------ Spec
Next ==
    \/ Call
    \/ Close
    \/ \E c \in CallIds, w \in DOMAIN workers : Accept(c, w)
    \/ \E c \in CallIds : TimerFire(c)
    \/ \E c \in CallIds : SendPanic(c)
    \/ \E c \in CallIds : Return(c)
    \/ \E w \in DOMAIN workers : ExecPipeFail(w)
    \/ \E w \in DOMAIN workers : ExecStartFail(w)
    \/ \E w \in DOMAIN workers : ExecStart(w)
    \/ \E w \in DOMAIN workers : ExecDecodeOk(w)
    \/ \E w \in DOMAIN workers : ExecDecodeFail(w)
    \/ \E w \in DOMAIN workers : ExecWait(w)
    \/ \E w \in DOMAIN workers : WorkerExit(w)
    \/ \E c \in CallIds : ProcWrite(c)
    \/ \E c \in CallIds : ProcExit(c)
    \/ \E c \in CallIds : DeadlineKill(c)
    \/ \E c \in CallIds : CancelKill(c)

Spec == Init /\ [][Next]_vars

\* One step of the goroutine of worker w.
WorkerStep(w) ==
    /\ w \in DOMAIN workers
    /\ \/ ExecPipeFail(w)
       \/ ExecStartFail(w)
       \/ ExecStart(w)
       \/ ExecDecodeOk(w)
       \/ ExecDecodeFail(w)
       \/ ExecWait(w)
       \/ WorkerExit(w)

\* The Go scheduler runs every runnable goroutine, and the deadline of a
\* command's context elapses.
FairSpec ==
    /\ Spec
    /\ \A w \in 1 .. MaxWorkers : WF_vars(WorkerStep(w))
    /\ \A c \in CallIds : WF_vars(DeadlineKill(c))

\* ------------------------------------------------------------------ time
\* The same behaviour with time counted in ticks.  clock.call[c] is the
\* time since call c entered its select, clock.proc[c] the time since the
\* context of its command was made.  What a goroutine or the runtime can do
\* it does before the next tick (its steps take no time); the subprocess
\* and the arrival of calls take any time.  Close is not called.

\* The configured timeout (solve_timeout, coach_timeout), in ticks.
TimeoutTicks == 2

\* time.After(timeout ms): the timer of call c's select has run out
TimerDue(c) == clock.call[c] >= TimeoutTicks

\* context.WithTimeout(timeout ms): the deadline of call c's command has
\* passed
DeadlineNever(c) == FALSE

DeadlineDue(c) == clock.proc[c] >= TimeoutTicks

\* A step of a goroutine or of the runtime is ready to be taken.
Urgent ==
    \/ \E c \in CallIds, w \in DOMAIN workers : CanAccept(c, w)
    \/ \E c \in CallIds : calls[c].pc = "select" /\ TimerDue(c)
    \/ \E c \in CallIds : calls[c].pc = "return"
    \/ \E c \in CallIds :
            procs[c].st = "running" /\ ~procs[c].cancelled /\ DeadlineDue(c)
    \/ \E c \in CallIds : procs[c].st = "running" /\ procs[c].cancelled
    \/ \E w \in DOMAIN workers :
        \/ workers[w].pc = "start"
        \/ /\ workers[w].pc = "decode"
           /\ DecodeOutcome(procs[workers[w].task]).type # "pending"
        \/ /\ workers[w].pc = "wait"
           /\ procs[workers[w].task].st = "exited"

\* One tick passes for every call under way and every armed deadline.
Tick ==
    /\ ~Urgent
    /\ \E c \in CallIds : calls[c].pc \in {"select", "wait"}
    /\ clock' =
        [call |-> [c \in CallIds |->
                IF calls[c].pc \in {"select", "wait"}
                THEN Min(clock.call[c] + 1, 2 * TimeoutTicks + 1)
                ELSE clock.call[c]],
         proc |-> [c \in CallIds |->
                IF procs[c].st = "running" /\ ~procs[c].cancelled
                THEN Min(clock.proc[c] + 1, 2 * TimeoutTicks + 1)
                ELSE clock.proc[c]]]
    /\ UNCHANGED <<facade, file, config, bot, closed, workers, calls, procs,
                   nstarted, ncalls>>

\* The engine with at least one worker.
InitTimed ==
    /\ Init
    /\ config.MaxConcurrentUsers >= 1

TimedNext ==
    \/ Tick
    \/ Call
    \/ \E c \in CallIds, w \in DOMAIN workers : Accept(c, w)
    \/ \E c \in CallIds : TimerDue(c) /\ TimerFire(c)
    \/ \E c \in CallIds : Return(c)
    \/ \E w \in DOMAIN workers : ExecPipeFail(w)
    \/ \E w \in DOMAIN workers : ExecStartFail(w)
    \/ \E w \in DOMAIN workers : ExecStart(w)
    \/ \E w \in DOMAIN workers : ExecDecodeOk(w)
    \/ \E w \in DOMAIN workers : ExecDecodeFail(w)
    \/ \E w \in DOMAIN workers : ExecWait(w)
    \/ \E c \in CallIds : ProcWrite(c)
    \/ \E c \in CallIds : ProcExit(c)
    \/ \E c \in CallIds : DeadlineDue(c) /\ DeadlineKill(c)
    \/ \E c \in CallIds : CancelKill(c)

TimedSpec == InitTimed /\ [][TimedNext]_vars

\* A step of a goroutine or of the runtime: a select takes a ready case, a
\* worker or a caller goes on, a deadline that has passed or a cancelled
\* context kills its subprocess.
GoStep ==
    \/ \E c \in CallIds, w \in DOMAIN workers : Accept(c, w)
    \/ \E c \in CallIds : TimerDue(c) /\ TimerFire(c)
    \/ \E c \in CallIds : Return(c)
    \/ \E w \in DOMAIN workers : WorkerStep(w)
    \/ \E c \in CallIds : DeadlineDue(c) /\ DeadlineKill(c)
    \/ \E c \in CallIds : CancelKill(c)

\* Time passes, and the Go scheduler does not stop while a step is ready.
FairTimedSpec ==
    /\ TimedSpec
    /\ WF_vars(Tick)
    /\ WF_vars(GoStep)

\* =================================================================
\* Properties
\* =================================================================

NumWorkers == Cardinality(DOMAIN workers)

\* The call whose task worker w runs stores the result of execAtom in this
\* step and is released from wg.Wait().
TaskReturns(w) ==
    /\ workers[w].pc \in {"start", "decode", "wait"}
    /\ calls[workers[w].task].pc = "wait"
    /\ calls'[workers[w].task].pc = "return"

\* An error produced by decoder.Decode.
IsDecodeFailure(e) == e # ErrNil /\ e.site = "execAtom.Decode"

\* C1: with a pool of N >= 1 workers, the number of subprocesses started
\* and not yet exited never exceeds N.
C1_AtMostNSubprocesses ==
    config.MaxConcurrentUsers >= 1 =>
        Cardinality(Running) <= config.MaxConcurrentUsers

\* C2: a submission that ends by its timer returns an error the handler
\* classifies as a timeout.
C2_QueueTimeoutClassified ==
    \A c \in CallIds :
        (calls[c].pc = "return" /\ calls[c].via = "timer") =>
            /\ calls[c].err # ErrNil
            /\ IsTimeoutError(calls[c].err)

\* C3: when the deadline killed the subprocess of an accepted task, the
\* call returns an error classified as a timeout.
C3_DeadlineClassified ==
    [][\A w \in DOMAIN workers :
        (TaskReturns(w) /\ procs[workers[w].task].killed = "deadline") =>
            IsTimeoutError(calls'[workers[w].task].err)]_vars

\* C4: no partial results: a returning call has a nil error and the decoded
\* value, or an error and no decoded data.
C4_NoPartialResults ==
    \A c \in CallIds :
        calls[c].pc = "return" =>
            \/ calls[c].err = ErrNil /\ calls[c].val = "decoded"
            \/ calls[c].err # ErrNil /\ calls[c].val = "zero"

\* C5: a call issued before Close and still in its select when Close runs
\* ends as in normal operation: no call issued before Close panics.
C5_CloseLeavesWaitersAlone ==
    \A c \in CallIds : ~calls[c].afterClose => calls[c].pc # "panicked"

AllWorkersExited == \A w \in DOMAIN workers : workers[w].pc = "exited"

\* C6: a task submitted after Close is never accepted and starts no
\* subprocess, and after Close every worker eventually exits.
C6_ClosedPoolStops ==
    /\ [](\A c \in CallIds :
            calls[c].afterClose =>
                /\ calls[c].pc # "wait"
                /\ calls[c].via # "task"
                /\ procs[c].st = "none")
    /\ (closed ~> AllWorkersExited)

C6_Witness ==
    /\ closed
    /\ NumWorkers >= 1
    /\ AllWorkersExited
    /\ \E c \in CallIds : calls[c].afterClose /\ calls[c].pc = "panicked"
    /\ \E c \in CallIds : ~calls[c].afterClose /\ procs[c].st = "exited"

\* C7: with maxConcurrentCalls <= 0 there is no worker, no subprocess is
\* started, and every submission waits for its timer and ends with the
\* queue-wait timeout error.
C7_NoWorkersOnlyTimeouts ==
    config.MaxConcurrentUsers <= 0 =>
        /\ NumWorkers = 0
        /\ nstarted = 0
        /\ \A c \in CallIds :
            \/ calls[c].pc \in {"idle", "select", "returned"}
            \/ /\ calls[c].pc = "return"
               /\ calls[c].via = "timer"
               /\ calls[c].err = ErrQueueTimeout

\* C8: no retries: the subprocesses started never outnumber the calls made.
C8_NoRetries == nstarted <= ncalls

C8_Witness ==
    /\ nstarted = ncalls
    /\ \E c \in CallIds :
        /\ calls[c].pc = "return"
        /\ calls[c].via = "task"
        /\ calls[c].err # ErrNil
        /\ procs[c].st # "none"

\* C9 as claimed: at most Cap bytes are read, and a call whose subprocess
\* wrote more than Cap bytes returns a decode failure.
C9_OverCapAlwaysDecodeFailure ==
    /\ [](\A c \in CallIds : procs[c].nread <= Cap)
    /\ [][\A w \in DOMAIN workers :
            (TaskReturns(w) /\ procs[workers[w].task].written > Cap) =>
                IsDecodeFailure(calls'[workers[w].task].err)]_vars

\* Whether the JSON value printed by subprocess p is complete within the
\* first Cap bytes.
JsonWithinCap(p) == p.plan.kind = "json" /\ p.plan.jsonEnd <= Cap

\* C9 as amended: at most Cap bytes are read; a call whose subprocess wrote
\* more than Cap bytes returns a decode failure when the JSON value is not
\* complete within the first Cap bytes, and otherwise what cmd.Wait() says.
C9_OverCapDecodeFailureUnlessComplete ==
    /\ [](\A c \in CallIds : procs[c].nread <= Cap)
    /\ [][\A w \in DOMAIN workers :
            (TaskReturns(w) /\ procs[workers[w].task].written > Cap) =>
                LET c == workers[w].task IN
                IF JsonWithinCap(procs[c])
                THEN /\ calls'[c].val = "decoded"
                     /\ calls'[c].err \in {ErrNil, ErrExitStatus, ErrKilled}
                ELSE /\ IsDecodeFailure(calls'[c].err)
                     /\ calls'[c].val = "zero"]_vars

C9_Witness ==
    /\ \E c \in CallIds :
        /\ calls[c].pc = "return"
        /\ calls[c].err = ErrUnexpectedEOF
        /\ procs[c].st = "running"
    /\ \E c \in CallIds :
        /\ calls[c].pc = "wait"
        /\ calls[c].val = "decoded"
        /\ procs[c].written > Cap
        /\ procs[c].nread = Cap

\* The nine permission bits of perm allow nothing that 0755 does not: no
\* write permission for the group or for others.
PermWithin0755(perm) == (perm \div 16) % 2 = 0 /\ (perm \div 2) % 2 = 0

RootOwnedRegular(f) ==
    /\ f.exists
    /\ f.mode.type = "regular"
    /\ PermWithin0755(f.mode.perm)
    /\ f.uid = 0
    /\ f.gid = 0

\* C10 as claimed: NewBot fails, with no engine and no worker, unless the
\* executable exists, is regular, has permission bits within 0755 and is
\* owned by root:root; otherwise it succeeds with maxConcurrentCalls workers.
C10_TrustGate ==
    bot.state # "unconstructed" =>
        IF RootOwnedRegular(file)
        THEN bot.state = "ok" /\ bot.err = "nil"
             /\ NumWorkers = config.MaxConcurrentUsers
        ELSE bot.state = "nil" /\ bot.err # "nil" /\ NumWorkers = 0

\* C10 as amended: the mode must have no bit at all outside 0755 (setuid is
\* one), and the workers spawned are max(maxConcurrentCalls, 0).
C10_TrustGateAllModeBits ==
    bot.state # "unconstructed" =>
        IF RootOwnedRegular(file) /\ ~file.mode.setuid
        THEN bot.state = "ok" /\ bot.err = "nil"
             /\ NumWorkers = Max(config.MaxConcurrentUsers, 0)
        ELSE bot.state = "nil" /\ bot.err # "nil" /\ NumWorkers = 0

C10_Witness ==
    /\ bot.state = "ok"
    /\ file.mode.perm # Mode0755
    /\ config.MaxConcurrentUsers >= 1
    /\ NumWorkers = config.MaxConcurrentUsers

\* C11: Solve(word) submits [solve, -t, word] with the configured solve
\* timeout, Coach(word, guesses) submits [coach, -t, word] followed by all
\* the guesses in their order with the configured coach timeout, WordList()
\* submits [list, all] with 1000 ms; and the queue-wait timer and the
\* subprocess deadline are the same value.
C11_FacadeArguments ==
    /\ facade.op # "none" => facade.timer = facade.deadline
    /\ facade.op = "Solve" =>
        /\ facade.deadline = config.SolveTimeout
        /\ Len(facade.argv) = 3
        /\ facade.argv[1] = "solve" /\ facade.argv[2] = "-t"
        /\ facade.argv[3] = facade.word
    /\ facade.op = "Coach" =>
        /\ facade.deadline = config.CoachTimeout
        /\ Len(facade.argv) = 3 + Len(facade.guesses)
        /\ facade.argv[1] = "coach" /\ facade.argv[2] = "-t"
        /\ facade.argv[3] = facade.word
        /\ \A i \in 1 .. Len(facade.guesses) :
                facade.argv[3 + i] = facade.guesses[i]
    /\ facade.op = "WordList" =>
        /\ facade.deadline = 1000
        /\ Len(facade.argv) = 2
        /\ facade.argv[1] = "list" /\ facade.argv[2] = "all"

C11_Witness ==
    /\ facade.op = "Coach"
    /\ Len(facade.guesses) = 2
    /\ facade.guesses[1] # facade.guesses[2]
    /\ config.CoachTimeout # config.SolveTimeout
    /\ config.CoachTimeout # 1000

\* C12: the handler answers an engine error with 503 exactly when the call
\* failed by timeout (its queue-wait timer fired, or the deadline killed its
\* subprocess), and with 500 for every other engine failure.
C12_HandlerStatusByTimeout ==
    /\ [](\A c \in CallIds :
            (calls[c].pc = "return" /\ calls[c].via = "timer") =>
                internalErrorStatus(calls[c].err) = 503)
    /\ [][\A w \in DOMAIN workers :
            (TaskReturns(w) /\ calls'[workers[w].task].err # ErrNil) =>
                LET c == workers[w].task IN
                internalErrorStatus(calls'[c].err) =
                    IF procs[c].killed = "deadline" THEN 503 ELSE 500]_vars

\* C13: with N >= 1 workers and no Close, the wait for a worker lasts at
\* most T, the subprocess is under way for at most T, every call is under
\* way for at most 2*T, and every call returns (again and again no call is
\* under way).
C13_ReturnsWithinTwiceTimeout ==
    /\ [](\A c \in CallIds :
            /\ calls[c].pc = "select" => clock.call[c] <= TimeoutTicks
            /\ procs[c].st = "running" /\ ~procs[c].cancelled =>
                    clock.proc[c] <= TimeoutTicks
            /\ calls[c].pc \in {"wait", "return"} =>
                    clock.call[c] <= 2 * TimeoutTicks)
    /\ []<>(\A c \in CallIds : calls[c].pc \notin {"select", "wait", "return"})

\* A call that returns from an accepted task after more than T, close to 2*T.
C13_Witness ==
    \E c \in CallIds :
        /\ calls[c].pc = "return"
        /\ calls[c].via = "task"
        /\ clock.call[c] > TimeoutTicks
        /\ clock.call[c] >= 2 * TimeoutTicks - 1

\* A worker that received a task and has not finished running it.
Busy(w) == workers[w].pc \in {"start", "decode", "wait"}

\* The calls whose task was accepted and has not finished.
Accepted == {c \in CallIds : calls[c].pc = "wait"}

\* C14: the tasks accepted and not yet finished never outnumber the N
\* workers, and a worker takes a task only when it is idle: a worker that
\* holds a task holds the same task until it has run to completion.
C14_OneTaskPerWorker ==
    /\ [](Cardinality(Accepted) <= Max(config.MaxConcurrentUsers, 0))
    /\ [][\A w \in DOMAIN workers :
            Busy(w) => (workers'[w].task = workers[w].task \/ ~Busy(w)')]_vars

C14_Witness ==
    /\ config.MaxConcurrentUsers = MaxWorkers
    /\ Cardinality(Accepted) = MaxWorkers
    /\ \A w \in DOMAIN workers : Busy(w)
    /\ \E c \in CallIds : calls[c].pc = "select"

\* C15: when the task of a call whose subprocess was started returns to the
\* worker, the subprocess has exited, on the success path and on every
\* failure path; and a non-zero exit status is returned as an error.
C15_ReturnsAfterExit ==
    /\ [](\A c \in CallIds : WaitOutcome(procs[c], 1) # ErrNil)
    /\ [][\A w \in DOMAIN workers :
            (TaskReturns(w) /\ procs[workers[w].task].st # "none") =>
                procs[workers[w].task].st = "exited"]_vars

\* C16 as claimed: a task abandoned because its submission timed out may
\* still be picked up by a worker: while the pool is open, an idle worker
\* can receive the task of a call that returned the queue-wait timeout.
C16_AbandonedTaskStillOffered ==
    \A c \in CallIds, w \in DOMAIN workers :
        (calls[c].via = "timer" /\ workers[w].pc = "recv" /\ ~closed) =>
            CanAccept(c, w)

\* C16 as amended: a task abandoned because its submission timed out is
\* never run: every task a worker runs has its caller waiting in wg.Wait(),
\* a call that took the timer case has no worker and no subprocess, and it
\* is never accepted afterwards.
C16_AbandonedTaskNeverRuns ==
    /\ [](\A w \in DOMAIN workers :
            Busy(w) => /\ calls[workers[w].task].pc = "wait"
                       /\ calls[workers[w].task].via = "task")
    /\ [](\A c \in CallIds :
            calls[c].via = "timer" =>
                /\ procs[c].st = "none"
                /\ \A w \in DOMAIN workers : workers[w].task # c)
    /\ [][\A c \in CallIds :
            (calls[c].via = "timer" \/ calls[c].pc = "returned") =>
                /\ calls'[c].via # "task"
                /\ calls'[c].pc \in {"return", "returned"}]_vars

C16_Witness ==
    \E c \in CallIds, d \in CallIds, w \in DOMAIN workers :
        /\ calls[c].pc = "return"
        /\ calls[c].via = "timer"
        /\ ~closed
        /\ workers[w].pc = "recv"
        /\ d > c
        /\ calls[d].pc = "wait"

\* The workers that hold the task of call c.
Runners(c) == {w \in DOMAIN workers : Busy(w) /\ workers[w].task = c}

\* C17: every accepted task is run exactly once by exactly the one worker
\* that received it: while its caller waits exactly one worker holds it,
\* otherwise none does; a worker begins a task only by receiving it from
\* its caller's select, which the caller never enters again; and every
\* accepted task finishes (again and again no accepted task is unfinished).
C17_AcceptedTaskRunsOnce ==
    /\ [](\A c \in CallIds :
            Cardinality(Runners(c)) = IF calls[c].pc = "wait" THEN 1 ELSE 0)
    /\ [][\A w \in DOMAIN workers :
            (workers'[w].pc = "start" /\ workers[w] # workers'[w]) =>
                /\ workers[w].pc = "recv"
                /\ calls[workers'[w].task].pc = "select"
                /\ calls'[workers'[w].task].pc = "wait"]_vars
    /\ [][\A c \in CallIds :
            calls[c].pc \notin {"idle", "select"} =>
                calls'[c].pc \notin {"idle", "select"}]_vars
    /\ []<>(Accepted = {})

C17_Witness ==
    /\ \E c \in CallIds, d \in CallIds :
        /\ c # d
        /\ Cardinality(Runners(c)) = 1
        /\ Cardinality(Runners(d)) = 1
        /\ Runners(c) # Runners(d)
    /\ \E c \in CallIds : calls[c].pc = "return" /\ calls[c].via = "task"

\* The variables err and *v of call c are written in this step.
Written(c) == calls'[c].err # calls[c].err \/ calls'[c].val # calls[c].val

\* C18: err and *v of a call are never accessed by the caller and a worker
\* at once.  A worker writes them only while the caller is blocked in
\* wg.Wait(); the caller reads them (at its return) only when no worker
\* holds its task; on the timer path the caller alone writes err, no worker
\* holds the task, and nothing is written afterwards until the frame is
\* gone.
C18_NoConcurrentAccess ==
    /\ [](\A c \in CallIds :
            calls[c].pc \in {"select", "return", "returned"} => Runners(c) = {})
    /\ [][\A c \in CallIds :
            Written(c) =>
                \/ calls[c].pc = "wait" /\ Runners(c) # {}
                \/ /\ calls[c].pc = "select"
                   /\ calls'[c].via = "timer"
                   /\ Runners(c)' = {}
                \/ calls[c].pc = "return" /\ calls'[c] = [NoCall EXCEPT
                        !.pc = "returned", !.afterClose = calls[c].afterClose]]_vars

C18_Witness ==
    /\ \E c \in CallIds :
        /\ calls[c].pc = "return"
        /\ calls[c].via = "task"
        /\ calls[c].val = "decoded"
    /\ \E c \in CallIds :
        /\ calls[c].pc = "return"
        /\ calls[c].via = "timer"
        /\ \E w \in DOMAIN workers : Busy(w)

====
